---- MODULE Spec2Model ----
(***************************************************************************)
(* Model of the Dist cross-poster: the Bluesky rich-link pipeline of       *)
(* src/services/bluesky.rs (link scan, preview fetch, thumbnail relay,     *)
(* facet and embed builders, session and record submission) and the        *)
(* three-backend fan-out of src/main.rs.                                   *)
(*                                                                         *)
(* A Rust String is a sequence of Unicode scalar values (naturals); its    *)
(* byte length is the sum of the UTF-8 widths of its scalars.  An          *)
(* Option<T> is a sequence of length at most one.                          *)
(***************************************************************************)
EXTENDS Integers, Sequences, FiniteSets, TLC

VARIABLES
    \* post_bluesky (src/services/bluesky.rs)
    pc,        \* position in post_bluesky
    bsky_text,    \* text: the message text
    bsky_session, \* session: Option<BskySession>
    bsky_links,   \* links: Vec<DetectedLink>
    bsky_preview, \* preview: Option<LinkPreview>
    bsky_thumb,   \* thumb: Option<BskyThumb>
    pending,      \* the fetched image waiting for upload_blob: Option<[mime, size]>
    bsky_record,  \* record: Option<BskyPostRecord>, once built
    bsky_result,  \* Option<Result<String>>: what post_bluesky returned
    calls,     \* the network requests sent so far, in order
    net,       \* the outcome of each network step ("none": not attempted)
    \* a pure function under test
    fn,        \* its name
    arg,       \* its input
    out,       \* the values it returned so far
    \* main (src/main.rs)
    mainpc,    \* position of main
    cfg,       \* args and env: which backends are enabled and configured
    task,      \* position of each backend's future
    netm,      \* what each backend's network answers
    report     \* the line printed for each backend

pvars == <<pc, bsky_text, bsky_session, bsky_links, bsky_preview, bsky_thumb, pending,
          bsky_record, bsky_result, calls, net>>
fvars == <<fn, arg, out>>
mvars == <<mainpc, cfg, task, netm, report>>
vars == <<pvars, fvars, mvars>>

\* ------------------------------------------------------------ bounds
\* Longest short string drawn as an input of clamp_text.
MaxStrLen == 3
\* Most words in a message text.
MaxTokens == 2
\* Most relays in NOSTR_RELAYS.
MaxRelays == 1
\* Largest small limit drawn as an input of clamp_text.
MaxLimit == 4

\* ------------------------------------------------ program constants
BSKY_EMBED_TEXT_LIMIT == 300
THUMB_MAX_BYTES == 1500000
\* '…' (U+2026), the character clamp_text appends.
Ellipsis == 8230

\* ------------------------------------------------------------ options
None == <<>>
Some(x) == <<x>>
IsSome(o) == Len(o) = 1
IsNone(o) == Len(o) = 0
Unwrap(o) == o[1]

\* ------------------------------------------------------------ strings
\* UTF-8 width of one scalar value (str::len counts these bytes).
Utf8Len(c) == IF c < 128 THEN 1 ELSE IF c < 2048 THEN 2 ELSE IF c < 65536 THEN 3 ELSE 4

RECURSIVE ByteLen(_)
ByteLen(s) ==
    IF Len(s) = 0 THEN 0
    ELSE IF Len(s) = 1 THEN Utf8Len(s[1])
    ELSE LET half == Len(s) \div 2
         IN  ByteLen(SubSeq(s, 1, half)) + ByteLen(SubSeq(s, half + 1, Len(s)))

\* text.chars().count()
CharCount(s) == Len(s)

\* text.chars().take(n).collect()
Take(s, n) == SubSeq(s, 1, IF n < Len(s) THEN n ELSE Len(s))

\* usize::saturating_sub
SaturatingSub(a, b) == IF a > b THEN a - b ELSE 0

StartsWith(s, p) == Len(s) >= Len(p) /\ SubSeq(s, 1, Len(p)) = p

Contains(s, p) == \E i \in 1..(Len(s) - Len(p) + 1) : SubSeq(s, i, i + Len(p) - 1) = p

\* n copies of the scalar c
Rep(c, n) == [i \in 1..n |-> c]

\* ---------------------------------------------------------- clamp_text
\* A clamp that measures the text in bytes.
clamp_text_bytes(text, limit) ==
    IF limit = 0 THEN <<>>
    ELSE IF ByteLen(text) <= limit THEN text
    ELSE LET take == SaturatingSub(limit, 1)
         IN  IF take = 0 THEN <<Ellipsis>> ELSE Take(text, take) \o <<Ellipsis>>

\* A clamp without the early return for a text within the limit.
clamp_text_always(text, limit) ==
    IF limit = 0 THEN <<>>
    ELSE LET take == SaturatingSub(limit, 1)
         IN  IF take = 0 THEN <<Ellipsis>> ELSE Take(text, take) \o <<Ellipsis>>

clamp_text(text, limit) ==
    IF limit = 0 THEN <<>>
    ELSE LET char_count == CharCount(text)
         IN  IF char_count <= limit THEN text
             ELSE LET take == SaturatingSub(limit, 1)
                  IN  IF take = 0 THEN <<Ellipsis>>
                      ELSE Take(text, take) \o <<Ellipsis>>

\* ------------------------------------------------- text and link scan
Http == <<104, 116, 116, 112, 58, 47, 47>>
Https == <<104, 116, 116, 112, 115, 58, 47, 47>>
Ftp == <<102, 116, 112, 58, 47, 47>>
Mailto == <<109, 97, 105, 108, 116, 111, 58>>

IsWs(c) == c \in {9, 10, 13, 32}

\* Last index of the whitespace-free run of s that starts at i.
WordEnd(s, i) ==
    CHOOSE j \in i..Len(s) :
        /\ \A k \in i..j : ~IsWs(s[k])
        /\ (j = Len(s) \/ IsWs(s[j + 1]))

\* What linkify accepts as a LinkKind::Url: a scheme followed by something.
IsUrl(w) == \E p \in {Http, Https, Ftp, Mailto} : StartsWith(w, p) /\ Len(w) > Len(p)

\* LinkFinder::links(text) with kinds = [Url]: the URL-like words of the
\* text in order, each with its byte range in the UTF-8 text.
RECURSIVE FinderLinksFrom(_, _)
FinderLinksFrom(s, i) ==
    IF i > Len(s) THEN <<>>
    ELSE IF IsWs(s[i]) THEN FinderLinksFrom(s, i + 1)
    ELSE LET j == WordEnd(s, i)
             w == SubSeq(s, i, j)
             start == ByteLen(SubSeq(s, 1, i - 1))
         IN  (IF IsUrl(w)
              THEN <<[uri |-> w, start |-> start, end |-> start + ByteLen(w)]>>
              ELSE <<>>) \o FinderLinksFrom(s, j + 1)

FinderLinks(text) == FinderLinksFrom(text, 1)

KeepsLink(link) == StartsWith(link.uri, Http) \/ StartsWith(link.uri, Https)

detect_links(text) ==
    LET kept == SelectSeq(FinderLinks(text), KeepsLink)
    IN  [i \in 1..Len(kept) |->
            [url |-> kept[i].uri, start |-> kept[i].start, end |-> kept[i].end]]

\* links.first()
First(links) == IF Len(links) = 0 THEN None ELSE Some(links[1])

\* ---------------------------------------------------------- facets
\* A facet builder that drops a link whose URL it has already seen.
RECURSIVE DedupLinks(_)
DedupLinks(links) ==
    IF Len(links) = 0 THEN <<>>
    ELSE LET init == DedupLinks(SubSeq(links, 1, Len(links) - 1))
             last == links[Len(links)]
         IN  IF \E i \in 1..Len(init) : init[i].url = last.url
             THEN init ELSE Append(init, last)

FacetOf(link) ==
    [index |-> [byteStart |-> link.start, byteEnd |-> link.end],
     features |-> <<[typ |-> "app.bsky.richtext.facet#link", uri |-> link.url]>>]

build_bsky_facets_dedup(links) ==
    IF Len(links) = 0 THEN None
    ELSE LET ls == DedupLinks(links) IN Some([i \in 1..Len(ls) |-> FacetOf(ls[i])])

build_bsky_facets(links) ==
    IF Len(links) = 0 THEN None
    ELSE Some([i \in 1..Len(links) |-> FacetOf(links[i])])

\* ------------------------------------------------------------ embed
EmbedOf(link, title, description, thumb) ==
    Some([typ |-> "app.bsky.embed.external",
          external |-> [uri |-> link.url,
                        title |-> clamp_text(title, BSKY_EMBED_TEXT_LIMIT),
                        description |-> clamp_text(description, BSKY_EMBED_TEXT_LIMIT),
                        thumb |-> thumb]])

\* An embed builder that gives up when there is no preview.
build_bsky_external_embed_needs_preview(link, preview, thumb) ==
    IF IsNone(link) \/ IsNone(preview) THEN None
    ELSE LET l == Unwrap(link)
             p == Unwrap(preview)
         IN  EmbedOf(l, IF IsSome(p.title) THEN Unwrap(p.title) ELSE l.url,
                     IF IsSome(p.description) THEN Unwrap(p.description) ELSE l.url,
                     thumb)

\* An embed builder whose description falls back to the title it chose.
build_bsky_external_embed_desc_from_title(link, preview, thumb) ==
    IF IsNone(link) THEN None
    ELSE LET l == Unwrap(link)
             title == IF IsSome(preview) /\ IsSome(Unwrap(preview).title)
                      THEN Unwrap(Unwrap(preview).title) ELSE l.url
             description == IF IsSome(preview) /\ IsSome(Unwrap(preview).description)
                            THEN Unwrap(Unwrap(preview).description) ELSE title
         IN  EmbedOf(l, title, description, thumb)

build_bsky_external_embed(link, preview, thumb) ==
    IF IsNone(link) THEN None
    ELSE LET l == Unwrap(link)
             title == IF IsSome(preview) /\ IsSome(Unwrap(preview).title)
                      THEN Unwrap(Unwrap(preview).title) ELSE l.url
             description == IF IsSome(preview) /\ IsSome(Unwrap(preview).description)
                            THEN Unwrap(Unwrap(preview).description) ELSE l.url
         IN  EmbedOf(l, title, description, thumb)

\* ------------------------------------------------- text normalisation
RECURSIVE TrimStart(_)
TrimStart(s) == IF s # <<>> /\ IsWs(Head(s)) THEN TrimStart(Tail(s)) ELSE s

RECURSIVE TrimEnd(_)
TrimEnd(s) ==
    IF s # <<>> /\ IsWs(s[Len(s)]) THEN TrimEnd(SubSeq(s, 1, Len(s) - 1)) ELSE s

\* str::trim
Trim(s) == TrimEnd(TrimStart(s))

\* split_whitespace().collect::<Vec<_>>().join(" ") of a trimmed string
RECURSIVE Collapse(_)
Collapse(s) ==
    IF s = <<>> THEN <<>>
    ELSE IF IsWs(Head(s))
         THEN IF Tail(s) # <<>> /\ IsWs(Head(Tail(s)))
              THEN Collapse(Tail(s))
              ELSE <<32>> \o Collapse(Tail(s))
         ELSE <<Head(s)>> \o Collapse(Tail(s))

normalize_text(input) ==
    LET trimmed == Trim(input)
    IN  IF trimmed = <<>> THEN None
        ELSE LET collapsed == Collapse(trimmed)
             IN  IF collapsed = <<>> THEN None ELSE Some(collapsed)

\* "&amp;" and "&#32;"
EntAmp == <<38, 97, 109, 112, 59>>
EntSpace == <<38, 35, 51, 50, 59>>

\* html_escape::decode_html_entities, for the entities of the model's pages
RECURSIVE decode_html_entities(_)
decode_html_entities(s) ==
    IF s = <<>> THEN <<>>
    ELSE IF StartsWith(s, EntAmp)
         THEN <<38>> \o decode_html_entities(SubSeq(s, Len(EntAmp) + 1, Len(s)))
    ELSE IF StartsWith(s, EntSpace)
         THEN <<32>> \o decode_html_entities(SubSeq(s, Len(EntSpace) + 1, Len(s)))
    ELSE <<Head(s)>> \o decode_html_entities(Tail(s))

\* str::to_ascii_lowercase
ToAsciiLower(s) == [i \in 1..Len(s) |-> IF s[i] \in 65..90 THEN s[i] + 32 ELSE s[i]]

\* ------------------------------------------------------ preview scan
\* A parsed page is [metas, title]: its <meta> elements in document order,
\* each [property, name, content] of optional attributes, and the text of
\* its first <title> element, if any.
EmptyPreview == [title |-> None, description |-> None, image |-> None]

PreviewFull(pv) == IsSome(pv.title) /\ IsSome(pv.description) /\ IsSome(pv.image)

\* The match on the property attribute.
MatchProperty(pv, property, text_value, decoded) ==
    IF property = "og:title" /\ IsNone(pv.title)
    THEN [pv EXCEPT !.title = text_value]
    ELSE IF property = "og:description" /\ IsNone(pv.description)
    THEN [pv EXCEPT !.description = text_value]
    ELSE IF property \in {"og:image", "og:image:url", "og:image:secure_url"}
            /\ IsNone(pv.image)
    THEN [pv EXCEPT !.image = Some(decoded)]
    ELSE pv

\* The match on the name attribute.
MatchName(pv, name, text_value, decoded) ==
    IF name \in {"twitter:title", "title"} /\ IsNone(pv.title)
    THEN [pv EXCEPT !.title = text_value]
    ELSE IF name \in {"twitter:description", "description"} /\ IsNone(pv.description)
    THEN [pv EXCEPT !.description = text_value]
    ELSE IF name \in {"twitter:image", "twitter:image:src"} /\ IsNone(pv.image)
    THEN [pv EXCEPT !.image = Some(decoded)]
    ELSE pv

\* One iteration of the loop over the <meta> elements.
ScanMeta(pv, meta) ==
    IF IsNone(meta.content) THEN pv
    ELSE LET raw == Trim(Unwrap(meta.content))
         IN  IF raw = <<>> THEN pv
             ELSE LET decoded == decode_html_entities(raw)
                      text_value == normalize_text(decoded)
                      p1 == IF IsSome(meta.property)
                            THEN MatchProperty(pv, Unwrap(meta.property), text_value, decoded)
                            ELSE pv
                  IN  IF IsSome(meta.name)
                      THEN MatchName(p1, Unwrap(meta.name), text_value, decoded)
                      ELSE p1

\* The loop, with its break once all three fields are filled.
RECURSIVE ScanMetas(_, _)
ScanMetas(pv, metas) ==
    IF metas = <<>> THEN pv
    ELSE LET next == ScanMeta(pv, Head(metas))
         IN  IF PreviewFull(next) THEN next ELSE ScanMetas(next, Tail(metas))

\* The fallback to the <title> element.
TitleFallback(pv, title_el) ==
    IF IsNone(pv.title) /\ IsSome(title_el)
    THEN LET normalized == normalize_text(decode_html_entities(Trim(Unwrap(title_el))))
         IN  IF IsSome(normalized) THEN [pv EXCEPT !.title = normalized] ELSE pv
    ELSE pv

\* A scan that looks for the tags of each field in priority order.
RECURSIVE FirstValue(_, _, _)
FirstValue(metas, wanted, text) ==
    IF metas = <<>> THEN None
    ELSE LET m == Head(metas)
             raw == IF IsSome(m.content) THEN Trim(Unwrap(m.content)) ELSE <<>>
             decoded == decode_html_entities(raw)
             value == IF text THEN normalize_text(decoded) ELSE Some(decoded)
             hit == /\ raw # <<>>
                    /\ \/ IsSome(m.property) /\ <<"property", Unwrap(m.property)>> \in wanted
                       \/ IsSome(m.name) /\ <<"name", Unwrap(m.name)>> \in wanted
         IN  IF hit /\ IsSome(value) THEN value ELSE FirstValue(Tail(metas), wanted, text)

RECURSIVE FirstOfRules(_, _, _)
FirstOfRules(metas, rules, text) ==
    IF rules = <<>> THEN None
    ELSE LET v == FirstValue(metas, Head(rules), text)
         IN  IF IsSome(v) THEN v ELSE FirstOfRules(metas, Tail(rules), text)

TitleRules == << {<<"property", "og:title">>},
                 {<<"name", "twitter:title">>, <<"name", "title">>} >>
DescriptionRules == << {<<"property", "og:description">>},
                       {<<"name", "twitter:description">>, <<"name", "description">>} >>
ImageRules == << {<<"property", "og:image">>}, {<<"property", "og:image:url">>},
                 {<<"property", "og:image:secure_url">>}, {<<"name", "twitter:image">>},
                 {<<"name", "twitter:image:src">>} >>

\* Each field from the highest-priority tag present, whatever the order.
PriorityPreview(doc) ==
    TitleFallback([title |-> FirstOfRules(doc.metas, TitleRules, TRUE),
                   description |-> FirstOfRules(doc.metas, DescriptionRules, TRUE),
                   image |-> FirstOfRules(doc.metas, ImageRules, FALSE)],
                  doc.title)

\* The parsing half of fetch_link_preview, from the parsed document on.
ParsePreview(doc) ==
    LET pv == TitleFallback(ScanMetas(EmptyPreview, doc.metas), doc.title)
    IN  IF IsNone(pv.title) /\ IsNone(pv.description) /\ IsNone(pv.image)
        THEN None ELSE Some(pv)

TextHtml == <<116, 101, 120, 116, 47, 104, 116, 109, 108>>

\* A content-type gate that lets only a readable text/html header through.
ContentTypeRejectsStrict(ctype) ==
    ~(/\ IsSome(ctype)
      /\ Unwrap(ctype).to_str_ok
      /\ Contains(ToAsciiLower(Unwrap(ctype).value), TextHtml))

\* The content-type gate: a header that is absent, or that is not visible
\* ASCII (to_str fails), lets the response through.
ContentTypeRejects(ctype) ==
    /\ IsSome(ctype)
    /\ Unwrap(ctype).to_str_ok
    /\ ~Contains(ToAsciiLower(Unwrap(ctype).value), TextHtml)

\* fetch_link_preview on the response the GET produced:
\* [send, status_ok, ctype, bytes_ok, doc].
fetch_link_preview(resp) ==
    IF resp.send # "ok" THEN None
    ELSE IF ~resp.status_ok THEN None
    ELSE IF ContentTypeRejects(resp.ctype) THEN None
    ELSE IF ~resp.bytes_ok THEN None
    ELSE ParsePreview(resp.doc)

\* ------------------------------------------------- thumbnail helpers
ImagePrefix == <<105, 109, 97, 103, 101, 47>>
OctetStream == <<97, 112, 112, 108, 105, 99, 97, 116, 105, 111, 110, 47, 111, 99, 116,
                 101, 116, 45, 115, 116, 114, 101, 97, 109>>

\* Url::parse: a known scheme followed by something.
UrlParse(s) == IF IsUrl(s) THEN Some(s) ELSE None

\* Url::join: a candidate that carries a scheme is parsed on its own; any
\* other is taken relative to the base.
UrlJoin(base, candidate) ==
    IF \E p \in {Http, Https, Ftp, Mailto} : StartsWith(candidate, p)
    THEN UrlParse(candidate)
    ELSE IF candidate # <<>> /\ Head(candidate) = 47
         THEN Some(base \o candidate)
         ELSE Some(base \o <<47>> \o candidate)

resolve_url(base, candidate) ==
    IF IsSome(UrlParse(candidate)) THEN UrlParse(candidate)
    ELSE IF IsNone(UrlParse(base)) THEN None
    ELSE UrlJoin(Unwrap(UrlParse(base)), candidate)

\* The mime type fetch_thumbnail_blob reads off the image response.
MimeOf(resp) ==
    IF IsSome(resp.ctype) /\ Unwrap(resp.ctype).to_str_ok
    THEN Unwrap(resp.ctype).value ELSE OctetStream

\* A thumbnail check that turns away a body of THUMB_MAX_BYTES bytes too.
ThumbOutcomeOffByOne(resp) ==
    IF resp.send # "ok" THEN "neterr"
    ELSE IF ~resp.status_ok THEN "status"
    ELSE IF ~StartsWith(ToAsciiLower(MimeOf(resp)), ImagePrefix) THEN "ctype"
    ELSE IF ~resp.bytes_ok THEN "bytes"
    ELSE IF resp.len >= THUMB_MAX_BYTES THEN "oversize"
    ELSE "ok"

\* How the image GET ends inside fetch_thumbnail_blob: "ok" means the
\* bytes go on to upload_blob.
ThumbOutcome(resp) ==
    IF resp.send # "ok" THEN "neterr"
    ELSE IF ~resp.status_ok THEN "status"
    ELSE IF ~StartsWith(ToAsciiLower(MimeOf(resp)), ImagePrefix) THEN "ctype"
    ELSE IF ~resp.bytes_ok THEN "bytes"
    ELSE IF resp.len > THUMB_MAX_BYTES THEN "oversize"
    ELSE "ok"

\* How the preview GET ends inside fetch_link_preview.
PreviewOutcome(resp) ==
    IF resp.send # "ok" THEN "neterr"
    ELSE IF ~resp.status_ok THEN "status"
    ELSE IF ContentTypeRejects(resp.ctype) THEN "ctype"
    ELSE IF ~resp.bytes_ok THEN "bytes"
    ELSE IF IsNone(ParsePreview(resp.doc)) THEN "empty"
    ELSE "ok"

\* ------------------------------------------------- inputs of the model
Words == { <<104, 105>>,                                  \* hi
           <<128512>>,                                    \* an emoji, 4 bytes
           <<104, 116, 116, 112, 58, 47, 47, 97>>,        \* http://a
           <<104, 116, 116, 112, 115, 58, 47, 47, 98>>,   \* https://b
           <<102, 116, 112, 58, 47, 47, 99>>,             \* ftp://c
           <<109, 97, 105, 108, 116, 111, 58, 100>> }     \* mailto:d

RECURSIVE JoinWords(_)
JoinWords(ws) ==
    IF Len(ws) = 0 THEN <<>>
    ELSE IF Len(ws) = 1 THEN ws[1]
    ELSE ws[1] \o <<32>> \o JoinWords(Tail(ws))

\* The message texts: trimmed and not empty, as main hands them over.
Texts == UNION { { JoinWords(ws) : ws \in [1..n -> Words] } : n \in 1..MaxTokens }

CtHtml == <<84, 101, 120, 116, 47, 72, 84, 77, 76, 59, 32, 99, 104, 97, 114, 115, 101,
            116, 61, 117, 116, 102, 45, 56>>
CtJson == <<97, 112, 112, 108, 105, 99, 97, 116, 105, 111, 110, 47, 106, 115, 111, 110>>
CtPng == <<105, 109, 97, 103, 101, 47, 112, 110, 103>>
CtPngUpper == <<73, 77, 65, 71, 69, 47, 80, 78, 71>>

Header(value) == Some([to_str_ok |-> TRUE, value |-> value])
OpaqueHeader == Some([to_str_ok |-> FALSE, value |-> <<>>])

Meta(property, name, content) ==
    [property |-> property, name |-> name, content |-> content]

\* Pages the pipeline's preview GET may be answered with.
DocOg == [metas |-> << Meta(Some("og:title"), None, Some(<<79>>)),
                       Meta(Some("og:image"), None, Some(<<104, 116, 116, 112, 58, 47, 47, 105>>)) >>,
          title |-> None]
DocRelImage == [metas |-> << Meta(Some("og:image"), None, Some(<<47, 105>>)) >>,
                title |-> None]
DocBadImage == [metas |-> << Meta(Some("og:description"), None, Some(<<68>>)),
                             Meta(None, Some("twitter:image"), Some(Http)) >>,
                title |-> None]
DocTitleOnly == [metas |-> <<>>, title |-> Some(<<84>>)]
DocEmpty == [metas |-> <<>>, title |-> None]

Response(send, status_ok, ctype, bytes_ok, doc) ==
    [send |-> send, status_ok |-> status_ok, ctype |-> ctype, bytes_ok |-> bytes_ok,
     doc |-> doc]

PipelinePreviewResponses ==
    { Response("err", FALSE, None, FALSE, DocEmpty),
      Response("ok", FALSE, Header(CtHtml), TRUE, DocOg),
      Response("ok", TRUE, Header(CtJson), TRUE, DocOg),
      Response("ok", TRUE, Header(CtHtml), FALSE, DocOg),
      Response("ok", TRUE, None, TRUE, DocTitleOnly) }
    \cup { Response("ok", TRUE, Header(CtHtml), TRUE, d) :
             d \in {DocOg, DocRelImage, DocBadImage, DocTitleOnly, DocEmpty} }

ImageResponse(send, status_ok, ctype, bytes_ok, len) ==
    [send |-> send, status_ok |-> status_ok, ctype |-> ctype, bytes_ok |-> bytes_ok,
     len |-> len]

ImageResponses ==
    { ImageResponse("err", FALSE, None, FALSE, 0),
      ImageResponse("ok", FALSE, Header(CtPng), TRUE, 1),
      ImageResponse("ok", TRUE, None, TRUE, 1),
      ImageResponse("ok", TRUE, OpaqueHeader, TRUE, 1),
      ImageResponse("ok", TRUE, Header(CtHtml), TRUE, 1),
      ImageResponse("ok", TRUE, Header(CtPng), FALSE, 1),
      ImageResponse("ok", TRUE, Header(CtPngUpper), TRUE, 1) }
    \cup { ImageResponse("ok", TRUE, Header(CtPng), TRUE, n) :
             n \in {THUMB_MAX_BYTES - 1, THUMB_MAX_BYTES, THUMB_MAX_BYTES + 1} }

\* What the backend answers to a request it is sent.
HardOutcomes == {"neterr", "status", "badbody", "ok"}
AccessTokens == {"jwtA", "jwtB"}
Blobs == { [mimeType |-> "image/png", size |-> 1, link |-> "cid1"],
           [mimeType |-> "image/jpeg", size |-> 2, link |-> "cid2"] }

Ok(v) == Some([ok |-> TRUE, val |-> v])
Err(e) == Some([ok |-> FALSE, val |-> e])

NoNet == [session |-> "none", preview |-> "none", thumbnail |-> "none",
          image |-> None, upload |-> "none", record |-> "none"]

\* ------------------------------------------------------- post_bluesky
FnIdle == fn = "none" /\ arg = <<>> /\ out = <<>>
MainIdle == mainpc = "idle" /\ cfg = <<>> /\ task = <<>> /\ netm = <<>> /\ report = <<>>
PipeIdle ==
    /\ pc = "idle" /\ bsky_text = <<>> /\ bsky_session = None /\ bsky_links = <<>>
    /\ bsky_preview = None /\ bsky_thumb = None /\ pending = None
    /\ bsky_record = None /\ bsky_result = None /\ calls = <<>> /\ net = NoNet

Init ==
    /\ pc = "start"
    /\ bsky_text \in Texts
    /\ bsky_session = None /\ bsky_links = <<>> /\ bsky_preview = None
    /\ bsky_thumb = None /\ pending = None /\ bsky_record = None
    /\ bsky_result = None /\ calls = <<>> /\ net = NoNet
    /\ FnIdle /\ MainIdle

\* reqwest::Client::builder().timeout(10 s).build()
BuildClient ==
    /\ pc = "start"
    /\ \E built \in BOOLEAN :
         IF built
         THEN pc' = "session" /\ UNCHANGED bsky_result
         ELSE pc' = "done" /\ bsky_result' = Err("bsky: build http client")
    /\ UNCHANGED <<bsky_text, bsky_session, bsky_links, bsky_preview, bsky_thumb,
                   pending, bsky_record, calls, net, fvars, mvars>>

SessionError(o) ==
    IF o = "neterr" THEN "bsky: createSession request failed"
    ELSE IF o = "status" THEN "bsky: createSession status"
    ELSE "bsky: parse session"

\* A createSession that goes on after a failure, with an empty session.
CreateSessionLenient ==
    /\ pc = "session"
    /\ \E o \in HardOutcomes, tok \in AccessTokens :
         /\ calls' = Append(calls, [op |-> "createSession"])
         /\ net' = [net EXCEPT !.session = o]
         /\ bsky_session' = Some([access_jwt |-> IF o = "ok" THEN tok ELSE "",
                                  did |-> "did:plc:me"])
         /\ pc' = "preview"
         /\ UNCHANGED bsky_result
    /\ UNCHANGED <<bsky_text, bsky_links, bsky_preview, bsky_thumb, pending,
                   bsky_record, fvars, mvars>>

\* POST com.atproto.server.createSession, the status check, the body parse.
CreateSession ==
    /\ pc = "session"
    /\ \E o \in HardOutcomes, tok \in AccessTokens :
         /\ calls' = Append(calls, [op |-> "createSession"])
         /\ net' = [net EXCEPT !.session = o]
         /\ IF o = "ok"
            THEN /\ bsky_session' = Some([access_jwt |-> tok, did |-> "did:plc:me"])
                 /\ pc' = "preview"
                 /\ UNCHANGED bsky_result
            ELSE /\ bsky_result' = Err(SessionError(o))
                 /\ pc' = "done"
                 /\ UNCHANGED bsky_session
    /\ UNCHANGED <<bsky_text, bsky_links, bsky_preview, bsky_thumb, pending,
                   bsky_record, fvars, mvars>>

\* A preview step whose failures are returned with `?`.
FetchPreviewStrict ==
    /\ pc = "preview"
    /\ LET ls == detect_links(bsky_text)
       IN  /\ bsky_links' = ls
           /\ IF Len(ls) = 0
              THEN /\ bsky_preview' = None /\ pc' = "thumb"
                   /\ UNCHANGED <<calls, net, bsky_result>>
              ELSE \E resp \in PipelinePreviewResponses :
                     /\ bsky_preview' = fetch_link_preview(resp)
                     /\ calls' = Append(calls, [op |-> "preview", url |-> ls[1].url])
                     /\ net' = [net EXCEPT !.preview = PreviewOutcome(resp)]
                     /\ IF IsNone(fetch_link_preview(resp))
                        THEN pc' = "done" /\ bsky_result' = Err("bsky: preview failed")
                        ELSE pc' = "thumb" /\ UNCHANGED bsky_result
    /\ UNCHANGED <<bsky_text, bsky_session, bsky_thumb, pending, bsky_record,
                   fvars, mvars>>

\* A preview step that asks for the page of the last link found.
FetchPreviewLastLink ==
    /\ pc = "preview"
    /\ LET ls == detect_links(bsky_text)
       IN  /\ bsky_links' = ls
           /\ IF Len(ls) = 0
              THEN bsky_preview' = None /\ UNCHANGED <<calls, net>>
              ELSE \E resp \in PipelinePreviewResponses :
                     /\ bsky_preview' = fetch_link_preview(resp)
                     /\ calls' = Append(calls, [op |-> "preview", url |-> ls[Len(ls)].url])
                     /\ net' = [net EXCEPT !.preview = PreviewOutcome(resp)]
    /\ pc' = "thumb"
    /\ UNCHANGED <<bsky_text, bsky_session, bsky_thumb, pending, bsky_record,
                   bsky_result, fvars, mvars>>

\* detect_links(text), then fetch_link_preview for the first link.
FetchPreview ==
    /\ pc = "preview"
    /\ LET ls == detect_links(bsky_text)
       IN  /\ bsky_links' = ls
           /\ IF Len(ls) = 0
              THEN bsky_preview' = None /\ UNCHANGED <<calls, net>>
              ELSE \E resp \in PipelinePreviewResponses :
                     /\ bsky_preview' = fetch_link_preview(resp)
                     /\ calls' = Append(calls, [op |-> "preview", url |-> ls[1].url])
                     /\ net' = [net EXCEPT !.preview = PreviewOutcome(resp)]
    /\ pc' = "thumb"
    /\ UNCHANGED <<bsky_text, bsky_session, bsky_thumb, pending, bsky_record,
                   bsky_result, fvars, mvars>>

\* fetch_thumbnail_blob up to its call of upload_blob.
FetchThumbnail ==
    /\ pc = "thumb"
    /\ LET first == First(bsky_links)
       IN  IF IsSome(first) /\ IsSome(bsky_preview)
              /\ IsSome(Unwrap(bsky_preview).image)
           THEN LET resolved == resolve_url(Unwrap(first).url,
                                            Unwrap(Unwrap(bsky_preview).image))
                IN  IF IsNone(resolved)
                    THEN /\ bsky_thumb' = None /\ pc' = "record"
                         /\ net' = [net EXCEPT !.thumbnail = "unresolved"]
                         /\ UNCHANGED <<calls, pending>>
                    ELSE \E resp \in ImageResponses :
                           /\ calls' = Append(calls, [op |-> "thumbnail",
                                                      url |-> Unwrap(resolved)])
                           /\ net' = [net EXCEPT !.thumbnail = ThumbOutcome(resp),
                                                  !.image = Some(resp)]
                           /\ IF ThumbOutcome(resp) = "ok"
                              THEN /\ pending' = Some([mime |-> MimeOf(resp),
                                                       size |-> resp.len])
                                   /\ pc' = "upload"
                                   /\ UNCHANGED bsky_thumb
                              ELSE /\ bsky_thumb' = None /\ pc' = "record"
                                   /\ UNCHANGED pending
           ELSE /\ bsky_thumb' = None /\ pc' = "record"
                /\ UNCHANGED <<calls, net, pending>>
    /\ UNCHANGED <<bsky_text, bsky_session, bsky_links, bsky_preview, bsky_record,
                   bsky_result, fvars, mvars>>

ThumbOf(blob) ==
    Some([typ |-> "blob", mimeType |-> blob.mimeType, size |-> blob.size,
          ref |-> [link |-> blob.link]])

UploadCall ==
    [op |-> "uploadBlob", token |-> Unwrap(bsky_session).access_jwt,
     mime |-> Unwrap(pending).mime, size |-> Unwrap(pending).size]

\* An upload whose failure is returned to the caller of post_bluesky.
UploadBlobHard ==
    /\ pc = "upload"
    /\ \E o \in HardOutcomes, blob \in Blobs :
         /\ calls' = Append(calls, UploadCall)
         /\ net' = [net EXCEPT !.upload = o]
         /\ IF o = "ok"
            THEN bsky_thumb' = ThumbOf(blob) /\ pc' = "record" /\ UNCHANGED bsky_result
            ELSE bsky_thumb' = None /\ pc' = "done"
                 /\ bsky_result' = Err("bsky: uploadBlob failed")
    /\ UNCHANGED <<bsky_text, bsky_session, bsky_links, bsky_preview, pending,
                   bsky_record, fvars, mvars>>

\* upload_blob: POST com.atproto.repo.uploadBlob with the bearer token.
UploadBlob ==
    /\ pc = "upload"
    /\ \E o \in HardOutcomes, blob \in Blobs :
         /\ calls' = Append(calls, UploadCall)
         /\ net' = [net EXCEPT !.upload = o]
         /\ bsky_thumb' = IF o = "ok" THEN ThumbOf(blob) ELSE None
    /\ pc' = "record"
    /\ UNCHANGED <<bsky_text, bsky_session, bsky_links, bsky_preview, pending,
                   bsky_record, bsky_result, fvars, mvars>>

RecordError(o) ==
    IF o = "neterr" THEN "bsky: createRecord request failed"
    ELSE IF o = "status" THEN "bsky: createRecord status"
    ELSE "bsky: parse createRecord"

\* The record post_bluesky builds (created_at, a clock reading, left out).
BuildRecord ==
    [typ |-> "app.bsky.feed.post",
     text |-> bsky_text,
     langs |-> None,
     facets |-> build_bsky_facets(bsky_links),
     embed |-> build_bsky_external_embed(First(bsky_links), bsky_preview, bsky_thumb)]

\* Build the record, POST com.atproto.repo.createRecord, check, parse.
CreateRecord ==
    /\ pc = "record"
    /\ \E o \in HardOutcomes :
         /\ bsky_record' = Some(BuildRecord)
         /\ calls' = Append(calls, [op |-> "createRecord",
                                    token |-> Unwrap(bsky_session).access_jwt,
                                    repo |-> Unwrap(bsky_session).did,
                                    record |-> BuildRecord])
         /\ net' = [net EXCEPT !.record = o]
         /\ bsky_result' = IF o = "ok" THEN Ok("at://did:plc:me/post/1")
                           ELSE Err(RecordError(o))
    /\ pc' = "done"
    /\ UNCHANGED <<bsky_text, bsky_session, bsky_links, bsky_preview, bsky_thumb,
                   pending, fvars, mvars>>

Next ==
    \/ BuildClient
    \/ CreateSession
    \/ FetchPreview
    \/ FetchThumbnail
    \/ UploadBlob
    \/ CreateRecord

Spec == Init /\ [][Next]_vars

\* ------------------------------------------- clamp_text on its own
\* 'a', 'é' (2 bytes), '…' (3 bytes), an emoji (4 bytes)
Alphabet == {97, 233, Ellipsis, 128512}

ShortStrings == UNION { [1..n -> Alphabet] : n \in 0..MaxStrLen }

\* Strings around the embed's limit, of one-byte and of four-byte scalars.
LongStrings ==
    { Rep(c, n) : c \in {97, 128512},
                  n \in { BSKY_EMBED_TEXT_LIMIT - 1, BSKY_EMBED_TEXT_LIMIT,
                          BSKY_EMBED_TEXT_LIMIT + 1, BSKY_EMBED_TEXT_LIMIT + 5 } }

Limits == (0..MaxLimit) \cup {BSKY_EMBED_TEXT_LIMIT}

InitClamp ==
    /\ fn = "clamp_text"
    /\ arg \in [text : ShortStrings \cup LongStrings, limit : Limits]
    /\ out = <<>>
    /\ PipeIdle /\ MainIdle

\* clamp_text(text, limit)
ClampCall ==
    /\ fn = "clamp_text" /\ Len(out) = 0
    /\ out' = <<clamp_text(arg.text, arg.limit)>>
    /\ UNCHANGED <<fn, arg, pvars, mvars>>

\* clamp_text of what clamp_text returned, at the same limit
ClampAgain ==
    /\ fn = "clamp_text" /\ Len(out) = 1
    /\ out' = Append(out, clamp_text(out[1], arg.limit))
    /\ UNCHANGED <<fn, arg, pvars, mvars>>

NextClamp == ClampCall \/ ClampAgain

SpecClamp == InitClamp /\ [][NextClamp]_vars

\* ------------------------------- build_bsky_external_embed on its own
LongUrl == Http \o Rep(97, BSKY_EMBED_TEXT_LIMIT)

EmbedLinks ==
    { [url |-> u, start |-> 0, end |-> ByteLen(u)] :
        u \in { Http \o <<97>>, LongUrl } }

EmbedTexts ==
    { None, Some(<<72, 105>>), Some(Rep(98, BSKY_EMBED_TEXT_LIMIT + 5)),
      Some(Rep(128512, BSKY_EMBED_TEXT_LIMIT)) }

EmbedPreviews ==
    {None} \cup { Some(p) : p \in [title : EmbedTexts, description : EmbedTexts,
                                   image : {None, Some(Http \o <<105>>)}] }

InitEmbed ==
    /\ fn = "build_bsky_external_embed"
    /\ arg \in [link : {None} \cup { Some(l) : l \in EmbedLinks },
                preview : EmbedPreviews,
                thumb : {None} \cup { ThumbOf(b) : b \in Blobs }]
    /\ out = <<>>
    /\ PipeIdle /\ MainIdle

\* build_bsky_external_embed(link, preview, thumb)
EmbedCall ==
    /\ fn = "build_bsky_external_embed" /\ Len(out) = 0
    /\ out' = <<build_bsky_external_embed(arg.link, arg.preview, arg.thumb)>>
    /\ UNCHANGED <<fn, arg, pvars, mvars>>

NextEmbed == EmbedCall

SpecEmbed == InitEmbed /\ [][NextEmbed]_vars

\* -------------------------------------- fetch_link_preview on its own
\* The <meta> elements of the model's pages: one per recognised tag, each
\* with a content of its own, and the shapes the loop skips or splits on.
MetaPool ==
    { Meta(Some("og:title"), None, Some(<<65>>)),
      Meta(Some("og:description"), None, Some(<<66>>)),
      Meta(Some("og:image"), None, Some(Http \o <<67>>)),
      Meta(Some("og:image:url"), None, Some(Http \o <<68>>)),
      Meta(Some("og:image:secure_url"), None, Some(Https \o <<69>>)),
      Meta(None, Some("twitter:title"), Some(<<70>>)),
      Meta(None, Some("title"), Some(<<71>>)),
      Meta(None, Some("twitter:description"), Some(<<72>>)),
      Meta(None, Some("description"), Some(<<73>>)),
      Meta(None, Some("twitter:image"), Some(Http \o <<74>>)),
      Meta(None, Some("twitter:image:src"), Some(<<47, 75>>)),
      Meta(None, Some("viewport"), Some(<<76>>)),
      Meta(Some("og:title"), Some("twitter:description"), Some(<<32, 77, 32, 10, 78, 32>>)),
      Meta(Some("og:title"), None, None),
      Meta(Some("og:title"), None, Some(<<32, 32>>)),
      Meta(Some("og:description"), None, Some(EntSpace)),
      Meta(None, Some("description"), Some(<<79>> \o EntAmp \o <<80>>)) }

\* Most <meta> elements in a page.
MaxMetas == 2

Docs ==
    { [metas |-> ms, title |-> t] :
        ms \in UNION { [1..n -> MetaPool] : n \in 0..MaxMetas },
        t \in {None, Some(<<32, 84, 32>>), Some(<<32>>)} }

PreviewResponses ==
    { Response("ok", TRUE, Header(CtHtml), TRUE, d) : d \in Docs }
    \cup { Response(send, status_ok, ctype, bytes_ok, d) :
             send \in {"ok", "err"}, status_ok \in BOOLEAN,
             ctype \in {None, OpaqueHeader, Header(CtHtml), Header(CtJson)},
             bytes_ok \in BOOLEAN,
             d \in {DocOg, DocTitleOnly, DocEmpty} }

InitPreview ==
    /\ fn = "fetch_link_preview"
    /\ arg \in PreviewResponses
    /\ out = <<>>
    /\ PipeIdle /\ MainIdle

\* fetch_link_preview(client, url), the GET answered with arg
PreviewCall ==
    /\ fn = "fetch_link_preview" /\ Len(out) = 0
    /\ out' = <<fetch_link_preview(arg)>>
    /\ UNCHANGED <<fn, arg, pvars, mvars>>

NextPreview == PreviewCall

SpecPreview == InitPreview /\ [][NextPreview]_vars


\* ------------------------------------------------ main: the fan-out
Backends == {"bsky", "masto", "nostr"}

Skipped(why) == [kind |-> "skipped", val |-> why]
Posted(ref) == [kind |-> "OK", val |-> ref]
Errored(e) == [kind |-> "ERROR", val |-> e]
NotPrinted == [kind |-> "none", val |-> ""]

\* After the text is resolved and the three futures are built: the flags of
\* Args, which credentials Env found, and how many relays it lists.
InitMain ==
    /\ mainpc = "join"
    /\ cfg \in [no : [Backends -> BOOLEAN], env : [Backends -> BOOLEAN],
                relays : 0..MaxRelays]
    /\ task = [b \in Backends |-> "ready"]
    /\ netm = [bsky |-> [session |-> "none", record |-> "none"],
               masto |-> [post |-> "none"],
               nostr |-> [keys |-> "none", added |-> 0, send |-> "none",
                          bech32 |-> "none"]]
    /\ report = [b \in Backends |-> NotPrinted]
    /\ PipeIdle /\ FnIdle

\* The head of a backend's future: the flag, then the credentials.
Start(b, flag, first) ==
    /\ mainpc = "join"
    /\ task[b] = "ready"
    /\ IF cfg.no[b]
       THEN /\ report' = [report EXCEPT ![b] = Skipped(flag)]
            /\ task' = [task EXCEPT ![b] = "done"]
       ELSE IF ~cfg.env[b]
       THEN /\ report' = [report EXCEPT ![b] = Skipped("missing env")]
            /\ task' = [task EXCEPT ![b] = "done"]
       ELSE /\ task' = [task EXCEPT ![b] = first]
            /\ UNCHANGED report
    /\ UNCHANGED <<mainpc, cfg, netm, pvars, fvars>>

BskyStart == Start("bsky", "--no-bsky", "session")

\* post_bluesky of main.rs: createSession
BskyCreateSession ==
    /\ mainpc = "join"
    /\ task.bsky = "session"
    /\ \E o \in HardOutcomes :
         /\ netm' = [netm EXCEPT !.bsky.session = o]
         /\ IF o = "ok"
            THEN task' = [task EXCEPT !.bsky = "record"] /\ UNCHANGED report
            ELSE /\ task' = [task EXCEPT !.bsky = "done"]
                 /\ report' = [report EXCEPT !.bsky = Errored(SessionError(o))]
    /\ UNCHANGED <<mainpc, cfg, pvars, fvars>>

\* post_bluesky of main.rs: createRecord
BskyCreateRecord ==
    /\ mainpc = "join"
    /\ task.bsky = "record"
    /\ \E o \in HardOutcomes :
         /\ netm' = [netm EXCEPT !.bsky.record = o]
         /\ report' = [report EXCEPT !.bsky =
                          IF o = "ok" THEN Posted("at://did:plc:me/post/1")
                          ELSE Errored(RecordError(o))]
    /\ task' = [task EXCEPT !.bsky = "done"]
    /\ UNCHANGED <<mainpc, cfg, pvars, fvars>>

MastoStart == Start("masto", "--no-masto", "post")

MastoError(o) ==
    IF o = "neterr" THEN "mastodon: request failed"
    ELSE IF o = "status" THEN "mastodon: status"
    ELSE "mastodon: parse"

\* post_mastodon: POST /api/v1/statuses
MastoPost ==
    /\ mainpc = "join"
    /\ task.masto = "post"
    /\ \E o \in HardOutcomes :
         /\ netm' = [netm EXCEPT !.masto.post = o]
         /\ report' = [report EXCEPT !.masto =
                          IF o = "ok" THEN Posted("https://masto/1")
                          ELSE Errored(MastoError(o))]
    /\ task' = [task EXCEPT !.masto = "done"]
    /\ UNCHANGED <<mainpc, cfg, pvars, fvars>>

NostrStart == Start("nostr", "--no-nostr", "keys")

\* post_nostr: Keys::parse(nsec_or_hex)?
NostrKeys ==
    /\ mainpc = "join"
    /\ task.nostr = "keys"
    /\ \E parsed \in BOOLEAN :
         IF parsed
         THEN /\ netm' = [netm EXCEPT !.nostr.keys = "ok"]
              /\ task' = [task EXCEPT !.nostr = "relays"]
              /\ UNCHANGED report
         ELSE /\ netm' = [netm EXCEPT !.nostr.keys = "err"]
              /\ task' = [task EXCEPT !.nostr = "done"]
              /\ report' = [report EXCEPT !.nostr = Errored("nostr: keys")]
    /\ UNCHANGED <<mainpc, cfg, pvars, fvars>>

\* post_nostr: one turn of the relay loop (a bad URL or a failed add_relay
\* is passed over), then client.connect() once the list is through.
NostrRelays ==
    /\ mainpc = "join"
    /\ task.nostr = "relays"
    /\ IF netm.nostr.added < cfg.relays
       THEN /\ netm' = [netm EXCEPT !.nostr.added = @ + 1]
            /\ UNCHANGED task
       ELSE /\ task' = [task EXCEPT !.nostr = "send"]
            /\ UNCHANGED netm
    /\ UNCHANGED <<mainpc, cfg, report, pvars, fvars>>

\* post_nostr: client.send_event_builder(builder).await?
NostrSend ==
    /\ mainpc = "join"
    /\ task.nostr = "send"
    /\ \E sent \in BOOLEAN :
         IF sent
         THEN /\ netm' = [netm EXCEPT !.nostr.send = "ok"]
              /\ task' = [task EXCEPT !.nostr = "sleep"]
              /\ UNCHANGED report
         ELSE /\ netm' = [netm EXCEPT !.nostr.send = "err"]
              /\ task' = [task EXCEPT !.nostr = "done"]
              /\ report' = [report EXCEPT !.nostr = Errored("nostr: send")]
    /\ UNCHANGED <<mainpc, cfg, pvars, fvars>>

\* post_nostr: the 300 ms grace sleep, disconnect, and to_bech32()?
NostrFinish ==
    /\ mainpc = "join"
    /\ task.nostr = "sleep"
    /\ \E encoded \in BOOLEAN :
         /\ netm' = [netm EXCEPT !.nostr.bech32 = IF encoded THEN "ok" ELSE "err"]
         /\ report' = [report EXCEPT !.nostr =
                          IF encoded THEN Posted("note1") ELSE Errored("nostr: bech32")]
    /\ task' = [task EXCEPT !.nostr = "done"]
    /\ UNCHANGED <<mainpc, cfg, pvars, fvars>>

\* A join that returns as soon as one backend has reported an error.
JoinFailFast ==
    /\ mainpc = "join"
    /\ \/ \A b \in Backends : task[b] = "done"
       \/ \E b \in Backends : report[b].kind = "ERROR"
    /\ mainpc' = "done"
    /\ UNCHANGED <<cfg, task, netm, report, pvars, fvars>>

\* join!(bsky_fut, masto_fut, nostr_fut); Ok(())
Join ==
    /\ mainpc = "join"
    /\ \A b \in Backends : task[b] = "done"
    /\ mainpc' = "done"
    /\ UNCHANGED <<cfg, task, netm, report, pvars, fvars>>

BskyStep == BskyStart \/ BskyCreateSession \/ BskyCreateRecord
MastoStep == MastoStart \/ MastoPost
NostrStep == NostrStart \/ NostrKeys \/ NostrRelays \/ NostrSend \/ NostrFinish

NextMain ==
    \/ BskyStart
    \/ BskyCreateSession
    \/ BskyCreateRecord
    \/ MastoStart
    \/ MastoPost
    \/ NostrStart
    \/ NostrKeys
    \/ NostrRelays
    \/ NostrSend
    \/ NostrFinish
    \/ Join

\* The runtime polls the joined future while a backend can move, and every
\* awaited call ends (with an answer or an error).
SpecMain ==
    /\ InitMain
    /\ [][NextMain]_vars
    /\ WF_vars(BskyStep)
    /\ WF_vars(MastoStep)
    /\ WF_vars(NostrStep)
    /\ WF_vars(Join)


\* =============================================================== claims
CountOp(op) == Cardinality({ i \in 1..Len(calls) : calls[i].op = op })
Sent(op) == CountOp(op) > 0
Failed(o) == o \in {"neterr", "status", "badbody"}
ResultIsOk == IsSome(bsky_result) /\ Unwrap(bsky_result).ok
ResultIsErr == IsSome(bsky_result) /\ ~Unwrap(bsky_result).ok

\* C1: the record post_bluesky submits carries no embed if and only if
\* detect_links(text) found no link; with a link the embed is there whatever
\* the preview and the thumbnail are, both absent included.
C1_EmbedIffLink ==
    IsSome(bsky_record) =>
        (IsNone(Unwrap(bsky_record).embed) <=> Len(detect_links(bsky_text)) = 0)

\* A link whose preview and thumbnail are both absent still got its embed.
C1_Witness ==
    /\ IsSome(bsky_record)
    /\ Len(bsky_links) > 0
    /\ IsNone(bsky_preview) /\ IsNone(bsky_thumb)
    /\ IsSome(Unwrap(bsky_record).embed)

\* C2: build_bsky_facets mirrors the links: None for no link, else one facet
\* per link in the same order, with the link's byte range and a single link
\* feature carrying its url; equal urls each keep their facet.
C2_FacetsMirrorLinks ==
    IsSome(bsky_record) =>
        LET facets == Unwrap(bsky_record).facets
        IN  IF Len(bsky_links) = 0 THEN IsNone(facets)
            ELSE /\ IsSome(facets)
                 /\ Len(Unwrap(facets)) = Len(bsky_links)
                 /\ \A i \in 1..Len(bsky_links) :
                      LET f == Unwrap(facets)[i]
                      IN  /\ f.index.byteStart = bsky_links[i].start
                          /\ f.index.byteEnd = bsky_links[i].end
                          /\ Len(f.features) = 1
                          /\ f.features[1].typ = "app.bsky.richtext.facet#link"
                          /\ f.features[1].uri = bsky_links[i].url

\* A text with the same URL twice got two facets.
C2_Witness ==
    /\ IsSome(bsky_record)
    /\ Len(bsky_links) = 2
    /\ bsky_links[1].url = bsky_links[2].url
    /\ Len(Unwrap(Unwrap(bsky_record).facets)) = 2

\* C3: once createSession succeeded, whatever the preview fetch, the
\* thumbnail fetch and the blob upload end with, post_bluesky sends
\* createRecord and returns what createRecord decides; a failed step leaves
\* no preview or no thumbnail.
C3_DegradeSilently ==
    (pc = "done" /\ net.session = "ok") =>
        /\ CountOp("createRecord") = 1
        /\ calls[Len(calls)].op = "createRecord"
        /\ ResultIsOk <=> net.record = "ok"
        /\ ResultIsErr => bsky_result = Err(RecordError(net.record))
        /\ net.preview \notin {"none", "ok"} => IsNone(bsky_preview)
        /\ net.thumbnail \notin {"none", "ok"} => IsNone(bsky_thumb)
        /\ net.upload \notin {"none", "ok"} => IsNone(bsky_thumb)

\* An oversize image and a failed preview each ended in a successful post.
C3_Witness ==
    /\ pc = "done"
    /\ net.session = "ok"
    /\ net.thumbnail = "oversize" \/ net.preview = "status"
    /\ ResultIsOk

\* C4: a failed createSession or createRecord (request error, non-success
\* status, undecodable body) makes post_bluesky return Err; neither call is
\* sent twice, and after a failed createSession nothing else is sent.
C4_HardFailures ==
    /\ CountOp("createSession") <= 1
    /\ CountOp("createRecord") <= 1
    /\ Failed(net.session) =>
         /\ pc = "done"
         /\ bsky_result = Err(SessionError(net.session))
         /\ calls = <<[op |-> "createSession"]>>
    /\ Failed(net.record) =>
         /\ pc = "done"
         /\ bsky_result = Err(RecordError(net.record))

\* createSession answered with a body that does not decode.
C4_Witness ==
    /\ pc = "done"
    /\ net.session = "badbody"
    /\ ResultIsErr

\* C5 as stated: an attempted upload that the endpoint answers with a
\* non-success status or a malformed body makes post_bluesky return Err, and
\* no record is submitted without the thumbnail.
C5_UploadFailureIsHard ==
    (pc = "done" /\ net.upload \in {"status", "badbody"}) =>
        ResultIsErr /\ ~Sent("createRecord")

\* C5 amended: such an upload failure leaves no thumbnail; the record is
\* submitted with its embed and no thumb, and the result of post_bluesky is
\* createRecord's.
C5_UploadFailureDegrades ==
    (pc = "done" /\ net.upload \in {"status", "badbody"}) =>
        /\ IsNone(bsky_thumb)
        /\ Sent("createRecord")
        /\ IsSome(Unwrap(bsky_record).embed)
        /\ IsNone(Unwrap(Unwrap(bsky_record).embed).external.thumb)
        /\ ResultIsOk <=> net.record = "ok"

\* The upload was refused and the post went through.
C5_Witness ==
    /\ pc = "done"
    /\ net.upload = "status"
    /\ net.record = "ok"
    /\ ResultIsOk

\* What a backend prints, from its own flag, credentials and answers alone.
OwnReport(b) ==
    IF cfg.no[b] THEN Skipped(IF b = "bsky" THEN "--no-bsky"
                              ELSE IF b = "masto" THEN "--no-masto" ELSE "--no-nostr")
    ELSE IF ~cfg.env[b] THEN Skipped("missing env")
    ELSE IF b = "bsky"
    THEN IF netm.bsky.session # "ok" THEN Errored(SessionError(netm.bsky.session))
         ELSE IF netm.bsky.record # "ok" THEN Errored(RecordError(netm.bsky.record))
         ELSE Posted("at://did:plc:me/post/1")
    ELSE IF b = "masto"
    THEN IF netm.masto.post # "ok" THEN Errored(MastoError(netm.masto.post))
         ELSE Posted("https://masto/1")
    ELSE IF netm.nostr.keys # "ok" THEN Errored("nostr: keys")
         ELSE IF netm.nostr.send # "ok" THEN Errored("nostr: send")
         ELSE IF netm.nostr.bech32 # "ok" THEN Errored("nostr: bech32")
         ELSE Posted("note1")

\* The backend's first call went out.
Attempted(b) ==
    IF b = "bsky" THEN netm.bsky.session # "none"
    ELSE IF b = "masto" THEN netm.masto.post # "none"
    ELSE netm.nostr.keys # "none"

C6_Safety ==
    /\ mainpc = "done" => \A b \in Backends : task[b] = "done"
    /\ \A b \in Backends :
         /\ task[b] = "done" => report[b] = OwnReport(b)
         /\ (task[b] = "done" /\ ~cfg.no[b] /\ cfg.env[b]) => Attempted(b)
         /\ task[b] # "done" => report[b] = NotPrinted

\* C6: the three joined backend tasks are independent: under every
\* combination of outcomes and every interleaving each backend runs to its
\* own completion, an enabled one after its attempt, and prints what its own
\* flag, credentials and answers decide; main returns, and only after all
\* three are done.
C6_Independent ==
    /\ [](mainpc = "join" \/ mainpc = "done" => C6_Safety)
    /\ (mainpc = "join") ~> (mainpc = "done")
    /\ \A b \in Backends : (mainpc = "join") ~> (task[b] = "done")

\* main returned after Bluesky failed at createSession while Mastodon and
\* Nostr both posted.
C6_Witness ==
    /\ mainpc = "done"
    /\ report.bsky = Errored(SessionError("status"))
    /\ report.masto.kind = "OK"
    /\ report.nostr.kind = "OK"

\* C7: the embed has uri = link.url, title = clamp_text(preview title, else
\* link.url) and description = clamp_text(preview description, else
\* link.url), each chosen on its own and so at most 300 scalars long, and the
\* thumbnail it was given.
C7_EmbedFields ==
    (fn = "build_bsky_external_embed" /\ Len(out) = 1 /\ IsSome(arg.link)) =>
        LET l == Unwrap(arg.link)
            has_title == IsSome(arg.preview) /\ IsSome(Unwrap(arg.preview).title)
            has_desc == IsSome(arg.preview) /\ IsSome(Unwrap(arg.preview).description)
            title == IF has_title THEN Unwrap(Unwrap(arg.preview).title) ELSE l.url
            desc == IF has_desc THEN Unwrap(Unwrap(arg.preview).description) ELSE l.url
        IN  /\ IsSome(out[1])
            /\ Unwrap(out[1]).external.uri = l.url
            /\ Unwrap(out[1]).external.title = clamp_text(title, BSKY_EMBED_TEXT_LIMIT)
            /\ Unwrap(out[1]).external.description = clamp_text(desc, BSKY_EMBED_TEXT_LIMIT)
            /\ Len(Unwrap(out[1]).external.title) <= BSKY_EMBED_TEXT_LIMIT
            /\ Len(Unwrap(out[1]).external.description) <= BSKY_EMBED_TEXT_LIMIT
            /\ Len(title) <= BSKY_EMBED_TEXT_LIMIT => Unwrap(out[1]).external.title = title
            /\ Len(desc) <= BSKY_EMBED_TEXT_LIMIT => Unwrap(out[1]).external.description = desc
            /\ Unwrap(out[1]).external.thumb = arg.thumb

\* A preview with the title "Hi" alone: the description is the link's URL.
C7_Witness ==
    /\ fn = "build_bsky_external_embed" /\ Len(out) = 1
    /\ IsSome(arg.link) /\ IsSome(arg.preview)
    /\ Unwrap(arg.preview).title = Some(<<72, 105>>)
    /\ IsNone(Unwrap(arg.preview).description)
    /\ Unwrap(out[1]).external.title = <<72, 105>>
    /\ Unwrap(out[1]).external.description = Unwrap(arg.link).url

\* C8: clamp_text counts scalar values: "" at limit 0, the text itself when
\* it has at most limit scalars, else its first limit - 1 scalars and one
\* ellipsis, limit scalars in all; never more than limit scalars.
C8_ClampText ==
    (fn = "clamp_text" /\ Len(out) >= 1) =>
        /\ arg.limit = 0 => out[1] = <<>>
        /\ (arg.limit > 0 /\ Len(arg.text) <= arg.limit) => out[1] = arg.text
        /\ (arg.limit > 0 /\ Len(arg.text) > arg.limit) =>
             /\ out[1] = SubSeq(arg.text, 1, arg.limit - 1) \o <<Ellipsis>>
             /\ Len(out[1]) = arg.limit
        /\ Len(out[1]) <= arg.limit

\* 305 letters at limit 300 gave 299 letters and the ellipsis.
C8_Witness ==
    /\ fn = "clamp_text" /\ Len(out) >= 1
    /\ arg.text = Rep(97, BSKY_EMBED_TEXT_LIMIT + 5)
    /\ arg.limit = BSKY_EMBED_TEXT_LIMIT
    /\ out[1] = Rep(97, BSKY_EMBED_TEXT_LIMIT - 1) \o <<Ellipsis>>

\* C9: clamp_text is idempotent: clamping its result again at the same limit
\* returns that result.
C9_ClampIdempotent ==
    (fn = "clamp_text" /\ Len(out) = 2) => out[2] = out[1]

\* A text that the first clamp cut, at limit 1, clamped again.
C9_Witness ==
    /\ fn = "clamp_text" /\ Len(out) = 2
    /\ arg.limit = 1
    /\ Len(arg.text) > 1
    /\ out[1] # arg.text
    /\ out[2] = <<Ellipsis>>

\* C10 as stated: whatever the order of the tags in the page,
\* fetch_link_preview returns each field from the highest-priority tag
\* present (og: before twitter: and plain names, og:image before its
\* variants before the twitter: ones, <title> last).
C10_PriorityWins ==
    (fn = "fetch_link_preview" /\ Len(out) = 1
        /\ PreviewOutcome(arg) \in {"ok", "empty"}) =>
        LET pp == PriorityPreview(arg.doc)
        IN  out[1] = IF IsNone(pp.title) /\ IsNone(pp.description) /\ IsNone(pp.image)
                     THEN None ELSE Some(pp)

\* The response carries a content-type that reads as text and names text/html.
SaysHtml(resp) ==
    /\ IsSome(resp.ctype)
    /\ Unwrap(resp.ctype).to_str_ok
    /\ Contains(ToAsciiLower(Unwrap(resp.ctype).value), TextHtml)

\* The response carries a content-type that reads as text.
ReadableType(resp) == IsSome(resp.ctype) /\ Unwrap(resp.ctype).to_str_ok

HasField(p) == IsSome(p.title) \/ IsSome(p.description) \/ IsSome(p.image)

\* C11 as stated: fetch_link_preview returns None for every successful
\* response whose content-type does not contain text/html, a response with
\* no content-type header or with one that does not read as text included.
C11_NonHtmlIsNone ==
    (fn = "fetch_link_preview" /\ Len(out) = 1
        /\ arg.send = "ok" /\ arg.status_ok /\ ~SaysHtml(arg)) =>
        out[1] = None

\* C11 amended: None for every successful response whose content-type header
\* is there, reads as text and does not contain text/html, whatever the
\* body; None when the request fails, the status is not a success, the body
\* cannot be read, or no field is found.  A response with no content-type
\* header, or with one that does not read as text, is parsed as a text/html
\* one would be.
C11_PreviewNone ==
    (fn = "fetch_link_preview" /\ Len(out) = 1) =>
        /\ (arg.send # "ok" \/ ~arg.status_ok \/ ~arg.bytes_ok) => out[1] = None
        /\ (ReadableType(arg) /\ ~SaysHtml(arg)) => out[1] = None
        /\ IsSome(out[1]) => HasField(Unwrap(out[1]))
        /\ (arg.send = "ok" /\ arg.status_ok /\ arg.bytes_ok
              /\ (SaysHtml(arg) \/ ~ReadableType(arg))) =>
             /\ out[1] = None <=> ~HasField(PriorityPreview(arg.doc))
             /\ ~ReadableType(arg) =>
                  out[1] = fetch_link_preview([arg EXCEPT !.ctype = Header(CtHtml)])

\* An application/json answer whose body is full of og: tags gave None.
C11_Witness ==
    /\ fn = "fetch_link_preview" /\ Len(out) = 1
    /\ arg.send = "ok" /\ arg.status_ok /\ arg.bytes_ok
    /\ arg.ctype = Header(CtJson)
    /\ arg.doc = DocOg
    /\ out[1] = None

\* The image answer names an image/ type in a header that reads as text.
SaysImage(resp) ==
    /\ IsSome(resp.ctype)
    /\ Unwrap(resp.ctype).to_str_ok
    /\ StartsWith(ToAsciiLower(Unwrap(resp.ctype).value), ImagePrefix)

\* The embed of the submitted record is the thumbless one for the first link.
ThumblessEmbed ==
    LET first == bsky_links[1]
        embed == Unwrap(bsky_record).embed
        p == Unwrap(bsky_preview)
    IN  /\ IsSome(embed)
        /\ Unwrap(embed).external.uri = first.url
        /\ Unwrap(embed).external.title =
             clamp_text(IF IsSome(p.title) THEN Unwrap(p.title) ELSE first.url,
                        BSKY_EMBED_TEXT_LIMIT)
        /\ Unwrap(embed).external.description =
             clamp_text(IF IsSome(p.description) THEN Unwrap(p.description) ELSE first.url,
                        BSKY_EMBED_TEXT_LIMIT)
        /\ IsNone(Unwrap(embed).external.thumb)

\* C12: an image answer whose content-type does not start with image/ (none
\* at all included) or whose body is longer than 1,500,000 bytes leaves no
\* thumbnail and sends no upload, and post_bluesky still submits the embed
\* with uri, title and description and no thumb; a body of exactly
\* 1,500,000 bytes of an image/ type is uploaded.
C12_ThumbnailGate ==
    (IsSome(net.image) /\ Unwrap(net.image).send = "ok"
        /\ Unwrap(net.image).status_ok) =>
        LET r == Unwrap(net.image)
            turned_away == ~SaysImage(r) \/ (r.bytes_ok /\ r.len > THUMB_MAX_BYTES)
        IN  /\ turned_away =>
                 /\ ~Sent("uploadBlob")
                 /\ IsNone(bsky_thumb)
                 /\ pc \in {"record", "done"}
                 /\ pc = "done" => Sent("createRecord") /\ ThumblessEmbed
            /\ (SaysImage(r) /\ r.bytes_ok /\ r.len <= THUMB_MAX_BYTES) =>
                 /\ pc = "upload" => pending = Some([mime |-> Unwrap(r.ctype).value,
                                                     size |-> r.len])
                 /\ pc # "upload" =>
                      \E i \in 1..Len(calls) :
                          /\ calls[i].op = "uploadBlob"
                          /\ calls[i].size = r.len
                          /\ calls[i].mime = Unwrap(r.ctype).value

\* An image of 1,500,001 bytes: the post went out with a thumbless embed.
C12_Witness ==
    /\ pc = "done"
    /\ IsSome(net.image)
    /\ SaysImage(Unwrap(net.image))
    /\ Unwrap(net.image).len = THUMB_MAX_BYTES + 1
    /\ ~Sent("uploadBlob")
    /\ ThumblessEmbed
    /\ ResultIsOk

\* The place of a network step in the pipeline.
Rank(op) ==
    IF op = "createSession" THEN 1
    ELSE IF op = "preview" THEN 2
    ELSE IF op = "thumbnail" THEN 3
    ELSE IF op = "uploadBlob" THEN 4
    ELSE 5

\* C13: the requests of post_bluesky go out in the order createSession,
\* preview, thumbnail, uploadBlob, createRecord, each at most once; the
\* preview is asked for the first detected link only; the thumbnail only
\* once the preview step returned a preview with an image; the upload only
\* after the thumbnail fetch succeeded, with this invocation's access token;
\* createRecord last, after the others are done or skipped.
C13_StepOrder ==
    /\ \A i, j \in 1..Len(calls) : i < j => Rank(calls[i].op) < Rank(calls[j].op)
    /\ Len(calls) > 0 => calls[1].op = "createSession"
    /\ \A i \in 1..Len(calls) :
         /\ calls[i].op = "preview" =>
              /\ net.session = "ok"
              /\ Len(detect_links(bsky_text)) > 0
              /\ calls[i].url = detect_links(bsky_text)[1].url
         /\ calls[i].op = "thumbnail" =>
              /\ Sent("preview")
              /\ net.preview = "ok"
              /\ IsSome(bsky_preview)
              /\ IsSome(Unwrap(bsky_preview).image)
              /\ Some(calls[i].url) = resolve_url(bsky_links[1].url,
                                                  Unwrap(Unwrap(bsky_preview).image))
         /\ calls[i].op = "uploadBlob" =>
              /\ Sent("thumbnail")
              /\ net.thumbnail = "ok"
              /\ IsSome(bsky_session)
              /\ calls[i].token = Unwrap(bsky_session).access_jwt
         /\ calls[i].op = "createRecord" =>
              /\ i = Len(calls)
              /\ pc = "done"
              /\ net.session = "ok"
              /\ calls[i].token = Unwrap(bsky_session).access_jwt
              /\ net.thumbnail = "ok" => net.upload # "none"
    /\ Len(detect_links(bsky_text)) = 0 =>
         \A i \in 1..Len(calls) : calls[i].op \in {"createSession", "createRecord"}

\* A text with two different links whose post used all five requests.
C13_Witness ==
    /\ pc = "done"
    /\ Len(calls) = 5
    /\ Len(bsky_links) = 2
    /\ bsky_links[1].url # bsky_links[2].url
    /\ calls[5].op = "createRecord"

====
